---- MODULE Spec2Model ----
(***************************************************************************)
(* Model of GameClient (src/game.js): the client-side session state        *)
(* (player registry, avatar map, local identity, emote tracker, camera)    *)
(* and the handlers that mutate it.                                        *)
(*                                                                         *)
(* Camera offsets are held in HALF pixels: the code computes               *)
(* myPlayer.x - viewportWidth / 2, which is a half-integer for an odd      *)
(* viewport, so cameraX/cameraY here are twice the JavaScript value.       *)
(* Positions, viewport and world sizes are in whole pixels.                *)
(***************************************************************************)
EXTENDS Integers, Sequences, FiniteSets, TLC

\* ---------------------------------------------------------------- bounds
\* Time advances in steps of TickStep milliseconds up to MaxTime.
TickStep == 500
MaxTime == 2000
\* Number of expiry timers that may be pending at once.
MaxTimers == 2
\* Number of messages logged per socket.
MaxSent == 2

\* Ids, avatar names, positions and window sizes the inputs are drawn from.
Ids == {"p1", "p2"}
AvatarNames == {"a1", "a2"}
SelfIds == {"p1"}
Positions == {<<100, 1024>>, <<2040, 2040>>}
PositionsOf(id) == IF id = "p1" THEN Positions ELSE {<<2040, 2040>>}
AvatarOf(id) == IF id = "p1" THEN "a1" ELSE "a2"
\* Window sizes: an empty width, a height beyond the world, an odd height.
ViewportSizes == {<<0, 3000>>, <<800, 601>>}
Directions == {"north", "south", "east"}
EmoteKinds == {"jump", "wave"}
\* Click positions on the canvas and keys pressed.
ClickPoints == {<<0, 0>>, <<400, 300>>, <<2500, 10>>}
Keys == {"ArrowUp", "d", "1", "q"}
\* World coordinates the coordinate conversions are tried on, whole pixels.
WorldCoords == {-7, 0, 1, 1024, 2048, 3000}
\* Camera offsets before clamping, half pixels.
RawOffsets == {-1200, 0, 1, 2496, 2897, 4096, 5000}

\* ------------------------------------------------------ program constants
worldWidth == 2048
worldHeight == 2048
EmoteDuration == 1500
\* An expiry timer set to fire after the effect's duration is over.
TimerDelay_Late == EmoteDuration + TickStep
TimerDelay == 1500

\* ------------------------------------------------------------------ state
VARIABLES players, avatars, myPlayerId, myPlayer, playerEmotes,
          cameraX, cameraY, viewportWidth, viewportHeight,
          timers, now, lastEvent,
          readyState, reconnectPending, sent

\* The connection: this.ws.readyState, whether the reconnect timer of
\* ws.onclose is pending, and what was handed to this.ws.send on the
\* current socket, each message with the readyState it was sent in.
netVars == <<readyState, reconnectPending, sent>>

vars == <<players, avatars, myPlayerId, myPlayer, playerEmotes,
          cameraX, cameraY, viewportWidth, viewportHeight,
          timers, now, lastEvent, netVars>>

\* ------------------------------------------------------- JavaScript values
Null == [kind |-> "null"]
Undefined == [kind |-> "undefined"]
NullId == "null"

Truthy(v) == "kind" \notin DOMAIN v

Max(a, b) == IF a >= b THEN a ELSE b
Min(a, b) == IF a <= b THEN a ELSE b

\* Map.get / Map.set / Map.delete on this.players and this.playerEmotes.
MapGet(f, k) == IF k \in DOMAIN f THEN f[k] ELSE Undefined
MapSet(f, k, v) == [x \in DOMAIN f \cup {k} |-> IF x = k THEN v ELSE f[x]]
MapDelete(f, k) == [x \in DOMAIN f \ {k} |-> f[x]]
\* The same loop updating only the keys the map already has.
MapSetAll_KnownOnly(f, g) ==
  [x \in DOMAIN f |-> IF x \in DOMAIN g THEN g[x] ELSE f[x]]

\* for (const [k, v] of Object.entries(g)) f.set(k, v)
MapSetAll(f, g) ==
  [x \in DOMAIN f \cup DOMAIN g |-> IF x \in DOMAIN g THEN g[x] ELSE f[x]]
EmptyMap == [x \in {} |-> Undefined]

\* this.avatars is a Map whose iteration order (insertion order) matters to
\* loadAvatarImages, so it is a sequence of entries keyed by .name.
AvNames(av) == {av[i].name : i \in 1..Len(av)}
AvIndex(av, n) == CHOOSE i \in 1..Len(av) : av[i].name = n
AvGet(av, n) == IF n \in AvNames(av) THEN av[AvIndex(av, n)] ELSE Undefined
AvSet(av, n, e) ==
  IF n \in AvNames(av)
  THEN [i \in 1..Len(av) |-> IF av[i].name = n THEN e ELSE av[i]]
  ELSE Append(av, e)

\* ---------------------------------------------------------------- payloads
\* A player as the server sends it.
Player(id, pos) ==
  [id |-> id, username |-> id, x |-> pos[1], y |-> pos[2],
   avatar |-> AvatarOf(id),
   facing |-> IF id = "p1" THEN "west" ELSE "south"]

\* Avatar data as the server sends it: frames[direction] is the list of
\* base64 frames; only its length matters here.
FrameCount(n) ==
  [d \in Directions |->
     IF (n = "a1" /\ d = "east") \/ (n = "a2" /\ d = "south") THEN 1 ELSE 0]
AvatarData(n) == [name |-> n, frames |-> FrameCount(n)]

PlayerMaps ==
  UNION {{pm \in [S -> Positions] : \A id \in S : pm[id] \in PositionsOf(id)} :
           S \in SUBSET Ids}
PlayersPayload(pm) == [id \in DOMAIN pm |-> Player(id, pm[id])]
AvatarsPayload(S) == [n \in S |-> AvatarData(n)]

\* ------------------------------------------------------------------ camera
\* updateViewport without the Math.max(0, ...) floor.
updateViewportAxis_NoFloor(camera, world, viewport) ==
  Min(camera, 2 * (world - viewport))

\* updateViewport clamping at the world's edge, not a window before it.
updateViewportAxis_WorldEdge(camera, world, viewport) ==
  Max(0, Min(camera, 2 * world))

\* updateViewport (game.js 231-235), one axis, half pixels.
updateViewportAxis(camera, world, viewport) ==
  Max(0, Min(camera, 2 * (world - viewport)))

updateViewport(cx, cy, vw, vh) ==
  <<updateViewportAxis(cx, worldWidth, vw),
    updateViewportAxis(cy, worldHeight, vh)>>

\* centerViewportOnPlayer putting the player at the window's top left.
centerViewportOnPlayer_TopLeft(mp, cx, cy, vw, vh) ==
  IF ~Truthy(mp) THEN <<cx, cy>>
  ELSE updateViewport(2 * mp.x, 2 * mp.y, vw, vh)

\* centerViewportOnPlayer (game.js 223-229): the new <<cameraX, cameraY>>.
centerViewportOnPlayer(mp, cx, cy, vw, vh) ==
  IF ~Truthy(mp) THEN <<cx, cy>>
  ELSE updateViewport(2 * mp.x - vw, 2 * mp.y - vh, vw, vh)

\* ----------------------------------------------------------------- avatars
\* loadAvatarImage (game.js 258-281): the entry it stores; every new Image
\* starts incomplete.  It throws when avatarData has no frames.
CanLoad(avatarData) == "frames" \in DOMAIN avatarData
loadAvatarImage(avatarData) ==
  [name |-> avatarData.name,
   images |-> [d \in Directions |->
                 [i \in 1..avatarData.frames[d] |-> FALSE]]]

\* loadAvatarImages (game.js 252-256): walks the map in insertion order and
\* stops at the first entry loadAvatarImage throws on.
FirstUnloadable(av) ==
  IF \E i \in 1..Len(av) : ~CanLoad(av[i])
  THEN CHOOSE i \in 1..Len(av) :
         /\ ~CanLoad(av[i])
         /\ \A j \in 1..(i - 1) : CanLoad(av[j])
  ELSE Len(av) + 1
loadAvatarImages(av) ==
  [i \in 1..Len(av) |->
     IF i < FirstUnloadable(av) THEN loadAvatarImage(av[i]) ELSE av[i]]
loadAvatarImagesThrows(av) == FirstUnloadable(av) <= Len(av)

\* for (const [name, data] of Object.entries(message.avatars)) avatars.set
\* Object.entries lists the keys in the order the payload wrote them, which
\* is KeyOrder here.
KeyOrder == <<"a1", "a2">>
RECURSIVE AvSetAll(_, _, _)
AvSetAll(av, g, i) ==
  IF i > Len(KeyOrder) THEN av
  ELSE IF KeyOrder[i] \in DOMAIN g
       THEN AvSetAll(AvSet(av, KeyOrder[i], g[KeyOrder[i]]), g, i + 1)
       ELSE AvSetAll(av, g, i + 1)

\* --------------------------------------------------------------- event log
\* lastEvent records the handler that ran last: the operations it performed
\* in program order and whether it ended in an exception (caught by
\* ws.onmessage, game.js 76-81).
Event(action, ops, threw) == [action |-> action, ops |-> ops, threw |-> threw]
render(ops) == Append(ops, "render")

\* -------------------------------------------------------------------- init
Init ==
  /\ players = EmptyMap
  /\ avatars = <<>>
  /\ myPlayerId = NullId
  /\ myPlayer = Null
  /\ playerEmotes = EmptyMap
  /\ cameraX = 0
  /\ cameraY = 0
  /\ \E size \in ViewportSizes :
       /\ viewportWidth = size[1]
       /\ viewportHeight = size[2]
  /\ timers = <<>>
  /\ now = 0
  /\ lastEvent = Event("init", <<>>, FALSE)
  /\ readyState = "CONNECTING"
  /\ reconnectPending = FALSE
  /\ sent = <<>>

\* ---------------------------------------------------------------- messages
\* Decoded server messages.  A field the server left out is a field the
\* record does not have.
WelcomeMsgs ==
  {[action |-> "join_game", success |-> TRUE, playerId |-> id,
    players |-> PlayersPayload(pm),
    avatars |-> AvatarsPayload({AvatarOf(i) : i \in DOMAIN pm})] :
     id \in SelfIds, pm \in PlayerMaps}
WelcomeNoPlayers ==
  {[action |-> "join_game", success |-> TRUE, playerId |-> id] :
     id \in SelfIds}
WelcomeNoAvatars ==
  {[action |-> "join_game", success |-> TRUE, playerId |-> id,
    players |-> PlayersPayload(pm)] : id \in SelfIds, pm \in PlayerMaps}
JoinFailedMsgs == {[action |-> "join_game", success |-> FALSE]}
JoinedMsgs ==
  UNION {{[action |-> "player_joined", player |-> Player(id, pos),
           avatar |-> AvatarData(AvatarOf(id))] : pos \in PositionsOf(id)} :
           id \in Ids}
JoinedNoAvatar ==
  UNION {{[action |-> "player_joined", player |-> Player(id, pos)] :
           pos \in PositionsOf(id)} : id \in Ids}
MovedMsgs ==
  {[action |-> "players_moved", players |-> PlayersPayload(pm)] :
     pm \in PlayerMaps}
LeftMsgs == {[action |-> "player_left", playerId |-> id] : id \in Ids}
EmoteMsgs ==
  {[action |-> "emote", playerId |-> id, emote |-> k] :
     id \in Ids, k \in EmoteKinds}

\* ---------------------------------------------------------------- handlers
\* handleJoinGameSuccess (game.js 144-168).
handleJoinGameSuccess(m) ==
  LET hasPlayers == "players" \in DOMAIN m
      reached == hasPlayers /\ "avatars" \in DOMAIN m
      ps1 == IF hasPlayers THEN MapSetAll(players, m.players) ELSE players
      av1 == IF reached
             THEN AvSetAll(avatars, m.avatars, 1)
             ELSE avatars
      mp1 == IF reached THEN MapGet(ps1, m.playerId) ELSE myPlayer
      cam == IF reached
             THEN centerViewportOnPlayer(mp1, cameraX, cameraY,
                                         viewportWidth, viewportHeight)
             ELSE <<cameraX, cameraY>>
      av2 == IF reached THEN loadAvatarImages(av1) ELSE av1
      threwLoad == reached /\ loadAvatarImagesThrows(av1)
      threwName == reached /\ ~threwLoad /\ ~Truthy(mp1)
      threw == ~reached \/ threwLoad \/ threwName
      ops0 == <<"myPlayerId">>
      ops1 == IF hasPlayers THEN Append(ops0, "players") ELSE ops0
      ops2 == IF reached
              THEN ops1 \o <<"avatars", "myPlayer", "camera", "avatars">>
              ELSE ops1
  IN /\ myPlayerId' = m.playerId
     /\ players' = ps1
     /\ avatars' = av2
     /\ myPlayer' = mp1
     /\ cameraX' = cam[1]
     /\ cameraY' = cam[2]
     /\ lastEvent' = Event("join_game",
                           IF threw THEN ops2 ELSE render(ops2), threw)
     /\ UNCHANGED <<playerEmotes, viewportWidth, viewportHeight, timers, now,
                    netVars>>

\* handleServerMessage, case 'join_game' with success false (game.js 116-120).
handleJoinGameFailed(m) ==
  /\ lastEvent' = Event("join_game_failed", <<>>, FALSE)
  /\ UNCHANGED <<players, avatars, myPlayerId, myPlayer, playerEmotes,
                 cameraX, cameraY, viewportWidth, viewportHeight, timers, now,
                 netVars>>

\* handlePlayerJoined (game.js 170-175).
handlePlayerJoined(m) ==
  LET hasAvatar == "avatar" \in DOMAIN m
      av1 == IF hasAvatar
             THEN AvSet(AvSet(avatars, m.avatar.name, m.avatar),
                        m.avatar.name, loadAvatarImage(m.avatar))
             ELSE avatars
      ops == IF hasAvatar
             THEN render(<<"players", "avatars", "avatars">>)
             ELSE <<"players">>
  IN /\ players' = MapSet(players, m.player.id, m.player)
     /\ avatars' = av1
     /\ lastEvent' = Event("player_joined", ops, ~hasAvatar)
     /\ UNCHANGED <<myPlayerId, myPlayer, playerEmotes, cameraX, cameraY,
                    viewportWidth, viewportHeight, timers, now, netVars>>

\* handlePlayersMoved (game.js 177-188).
handlePlayersMoved(m) ==
  LET mine == myPlayerId \in DOMAIN m.players
      mp1 == IF mine THEN m.players[myPlayerId] ELSE myPlayer
      cam == IF mine
             THEN centerViewportOnPlayer(mp1, cameraX, cameraY,
                                         viewportWidth, viewportHeight)
             ELSE <<cameraX, cameraY>>
      ops0 == IF DOMAIN m.players = {} THEN <<>> ELSE <<"players">>
      ops1 == IF mine THEN ops0 \o <<"myPlayer", "camera">> ELSE ops0
  IN /\ players' = MapSetAll(players, m.players)
     /\ myPlayer' = mp1
     /\ cameraX' = cam[1]
     /\ cameraY' = cam[2]
     /\ lastEvent' = Event("players_moved", render(ops1), FALSE)
     /\ UNCHANGED <<avatars, myPlayerId, playerEmotes,
                    viewportWidth, viewportHeight, timers, now, netVars>>

\* Bookkeeping on the pending timers, not program state: leftSince marks
\* the timers whose entity has left since they were set.
MarkLeft(ts, id) ==
  [i \in 1..Len(ts) |->
     IF ts[i].playerId = id THEN [ts[i] EXCEPT !.leftSince = TRUE] ELSE ts[i]]

\* handlePlayerLeft (game.js 190-194).
handlePlayerLeft(m) ==
  /\ players' = MapDelete(players, m.playerId)
  /\ playerEmotes' = MapDelete(playerEmotes, m.playerId)
  /\ timers' = MarkLeft(timers, m.playerId)
  /\ lastEvent' = Event("player_left", render(<<"players", "playerEmotes">>),
                        FALSE)
  /\ UNCHANGED <<avatars, myPlayerId, myPlayer, cameraX, cameraY,
                 viewportWidth, viewportHeight, now, netVars>>

\* startEmoteAnimation (game.js 205-220): the effect it stores.
EmoteEffect(t) ==
  [type |-> "jump", startTime |-> t, duration |-> EmoteDuration, bounces |-> 3]

\* handlePlayerEmote with the render call moved into the jump branch.
handlePlayerEmote_RenderInJump(m) ==
  /\ IF m.emote = "jump"
     THEN /\ Len(timers) < MaxTimers
          /\ playerEmotes' = MapSet(playerEmotes, m.playerId, EmoteEffect(now))
          /\ timers' = Append(timers, [playerId |-> m.playerId,
                                       due |-> now + TimerDelay,
                                       leftSince |-> FALSE])
          /\ lastEvent' = Event("emote",
                                render(<<"playerEmotes", "setTimeout">>), FALSE)
     ELSE /\ UNCHANGED <<playerEmotes, timers>>
          /\ lastEvent' = Event("emote", <<>>, FALSE)
  /\ UNCHANGED <<players, avatars, myPlayerId, myPlayer, cameraX, cameraY,
                 viewportWidth, viewportHeight, now, netVars>>

\* handlePlayerEmote (game.js 196-203) with startEmoteAnimation inlined.
handlePlayerEmote(m) ==
  /\ IF m.emote = "jump"
     THEN /\ Len(timers) < MaxTimers
          /\ playerEmotes' = MapSet(playerEmotes, m.playerId, EmoteEffect(now))
          /\ timers' = Append(timers, [playerId |-> m.playerId,
                                       due |-> now + TimerDelay,
                                       leftSince |-> FALSE])
          /\ lastEvent' = Event("emote",
                                render(<<"playerEmotes", "setTimeout">>), FALSE)
     ELSE /\ UNCHANGED <<playerEmotes, timers>>
          /\ lastEvent' = Event("emote", render(<<>>), FALSE)
  /\ UNCHANGED <<players, avatars, myPlayerId, myPlayer, cameraX, cameraY,
                 viewportWidth, viewportHeight, now, netVars>>

\* The expiry callback of startEmoteAnimation (game.js 215-218).  All expiry
\* timers have the same delay, so they run in the order they were set.
emoteTimeout ==
  /\ timers # <<>>
  /\ now >= Head(timers).due
  /\ playerEmotes' = MapDelete(playerEmotes, Head(timers).playerId)
  /\ timers' = Tail(timers)
  /\ lastEvent' = Event("timeout", render(<<"playerEmotes">>), FALSE)
  /\ UNCHANGED <<players, avatars, myPlayerId, myPlayer, cameraX, cameraY,
                 viewportWidth, viewportHeight, now, netVars>>

\* The window resize listener (game.js 44-51).
resize(size) ==
  LET cam == updateViewport(cameraX, cameraY, size[1], size[2])
  IN /\ viewportWidth' = size[1]
     /\ viewportHeight' = size[2]
     /\ cameraX' = cam[1]
     /\ cameraY' = cam[2]
     /\ lastEvent' = Event("resize", render(<<"viewport", "camera">>), FALSE)
     /\ UNCHANGED <<players, avatars, myPlayerId, myPlayer, playerEmotes,
                    timers, now, netVars>>

\* img.onload of a frame created by loadAvatarImage (game.js 271-275): the
\* image becomes complete and the page is rendered again.
imageOnload(n, d, i) ==
  /\ n \in AvNames(avatars)
  /\ LET e == AvGet(avatars, n)
     IN /\ "images" \in DOMAIN e
        /\ i \in DOMAIN e.images[d]
        /\ ~e.images[d][i]
        /\ avatars' = AvSet(avatars, n,
                            [e EXCEPT !.images[d][i] = TRUE])
  /\ lastEvent' = Event("onload", render(<<>>), FALSE)
  /\ UNCHANGED <<players, myPlayerId, myPlayer, playerEmotes, cameraX, cameraY,
                 viewportWidth, viewportHeight, timers, now, netVars>>

\* Date.now() moves on.
Tick ==
  /\ now + TickStep <= MaxTime
  /\ now' = now + TickStep
  /\ UNCHANGED <<lastEvent, players, avatars, myPlayerId, myPlayer, playerEmotes,
                 cameraX, cameraY, viewportWidth, viewportHeight, timers,
                 netVars>>

\* handleServerMessage's default branch with a render call added.
handleUnknown_Render(m) ==
  /\ lastEvent' = Event("unknown", render(<<>>), FALSE)
  /\ UNCHANGED <<players, avatars, myPlayerId, myPlayer, playerEmotes,
                 cameraX, cameraY, viewportWidth, viewportHeight, timers, now,
                 netVars>>

\* handleServerMessage, default branch (game.js 139-140): the action is
\* logged and nothing else happens.
handleUnknown(m) ==
  /\ lastEvent' = Event("unknown", <<>>, FALSE)
  /\ UNCHANGED <<players, avatars, myPlayerId, myPlayer, playerEmotes,
                 cameraX, cameraY, viewportWidth, viewportHeight, timers, now,
                 netVars>>

\* ------------------------------------------------------------- coordinates
\* worldToScreen (game.js 237-242) and screenToWorld (game.js 244-249), in
\* half pixels like the camera.
worldToScreen(worldX, worldY) == <<worldX - cameraX, worldY - cameraY>>

\* screenToWorld taking the camera offset off instead of adding it.
screenToWorld_Minus(screenX, screenY) ==
  <<screenX - cameraX, screenY - cameraY>>

screenToWorld(screenX, screenY) == <<screenX + cameraX, screenY + cameraY>>

\* Math.round of h half pixels, in whole pixels (halves round up).
MathRound(h) == (h + 1) \div 2

\* Date.now() moves on while the timers fire when they are due: time does
\* not pass a pending timer's due time before its callback has run.
TickDue ==
  /\ now < MaxTime
  /\ timers # <<>> => now < Head(timers).due
  /\ now' = IF timers # <<>>
            THEN Min(Min(now + TickStep, Head(timers).due), MaxTime)
            ELSE Min(now + TickStep, MaxTime)
  /\ UNCHANGED <<lastEvent, players, avatars, myPlayerId, myPlayer,
                 playerEmotes, cameraX, cameraY, viewportWidth, viewportHeight,
                 timers, netVars>>

\* --------------------------------------------------------------- rendering
\* drawPlayer (game.js 348-395): where it returns.  player.animationFrame
\* is never set, so the frame drawn is frames[0]; drawPlayerLabel (game.js
\* 397-407) reads username.length and throws when there is no username.
drawPlayer(player) ==
  LET screenPos == worldToScreen(2 * player.x, 2 * player.y)
      avatar == AvGet(avatars, player.avatar)
      direction == IF player.facing = "west" THEN "east" ELSE player.facing
      frames == avatar.images[direction]
  IN IF \/ screenPos[1] < -100 \/ screenPos[1] > 2 * viewportWidth + 100
        \/ screenPos[2] < -100 \/ screenPos[2] > 2 * viewportHeight + 100
     THEN "culled"
     ELSE IF ~Truthy(avatar) \/ "images" \notin DOMAIN avatar
     THEN "no_avatar"
     ELSE IF Len(frames) = 0 THEN "no_frames"
     ELSE IF ~frames[1] THEN "not_loaded"
     ELSE IF "username" \notin DOMAIN player THEN "throws"
     ELSE IF player.facing = "west" THEN "drawn_flipped"
     ELSE "drawn"

\* drawPlayers (game.js 342-346).
drawPlayers == [id \in DOMAIN players |-> drawPlayer(players[id])]

\* A render pass that first centres the camera on the local player.
renderPass_Recenter ==
  LET cam == centerViewportOnPlayer(myPlayer, cameraX, cameraY,
                                    viewportWidth, viewportHeight)
  IN /\ cameraX' = cam[1]
     /\ cameraY' = cam[2]
     /\ lastEvent' = [action |-> "world_onload", ops |-> render(<<>>),
                      threw |-> FALSE, drawn |-> drawPlayers]
     /\ UNCHANGED <<players, avatars, myPlayerId, myPlayer, playerEmotes,
                    viewportWidth, viewportHeight, timers, now, netVars>>

\* render (game.js 283-301) as worldImage.onload runs it (game.js 56-59):
\* the world image is there, so the pass goes through drawPlayers.  The
\* event records how each player's draw ended.
renderPass ==
  /\ lastEvent' = [action |-> "world_onload", ops |-> render(<<>>),
                   threw |-> FALSE, drawn |-> drawPlayers]
  /\ UNCHANGED <<players, avatars, myPlayerId, myPlayer, playerEmotes,
                 cameraX, cameraY, viewportWidth, viewportHeight, timers, now,
                 netVars>>

\* -------------------------------------------------------------- connection
\* this.ws.send(JSON.stringify(message)): the message goes on the log of the
\* current socket together with the readyState it was sent in.  send throws
\* while the socket is connecting and drops the message once it is closing.
wsSend(log, message, state) == Append(log, [msg |-> message, state |-> state])

\* ws.onopen (game.js 70-73) with joinGame (game.js 101-109).
joinGame(log, state) ==
  wsSend(log, [action |-> "join_game", username |-> "Praise"], state)

wsOpen ==
  /\ readyState = "CONNECTING"
  /\ readyState' = "OPEN"
  /\ sent' = joinGame(sent, "OPEN")
  /\ lastEvent' = Event("open", <<"send">>, FALSE)
  /\ UNCHANGED <<players, avatars, myPlayerId, myPlayer, playerEmotes,
                 cameraX, cameraY, viewportWidth, viewportHeight, timers, now,
                 reconnectPending>>

\* The closing handshake has started; onclose has not run yet.
wsClosing ==
  /\ readyState = "OPEN"
  /\ readyState' = "CLOSING"
  /\ UNCHANGED <<players, avatars, myPlayerId, myPlayer, playerEmotes,
                 cameraX, cameraY, viewportWidth, viewportHeight, timers, now,
                 lastEvent, reconnectPending, sent>>

\* ws.onclose (game.js 84-91): the socket is closed (also when it never
\* opened) and the reconnect timer is set.
wsClose ==
  /\ readyState # "CLOSED"
  /\ readyState' = "CLOSED"
  /\ reconnectPending' = TRUE
  /\ lastEvent' = Event("close", <<"setTimeout">>, FALSE)
  /\ UNCHANGED <<players, avatars, myPlayerId, myPlayer, playerEmotes,
                 cameraX, cameraY, viewportWidth, viewportHeight, timers, now,
                 sent>>

\* The reconnect timer fires (game.js 87-90): connectToServer makes a new
\* socket, which starts connecting with nothing sent.
reconnect ==
  /\ reconnectPending
  /\ reconnectPending' = FALSE
  /\ readyState' = "CONNECTING"
  /\ sent' = <<>>
  /\ lastEvent' = Event("reconnect", <<>>, FALSE)
  /\ UNCHANGED <<players, avatars, myPlayerId, myPlayer, playerEmotes,
                 cameraX, cameraY, viewportWidth, viewportHeight, timers, now>>

\* ------------------------------------------------------------------- input
\* sendMoveCommand without the readyState guard.
sendMoveCommand_NoGuard(log, arg) ==
  IF "direction" \in DOMAIN arg
  THEN wsSend(log, [action |-> "move", direction |-> arg.direction],
              readyState)
  ELSE wsSend(log, [action |-> "move", x |-> 2 * MathRound(arg.x),
                    y |-> 2 * MathRound(arg.y)], readyState)

\* sendMoveCommand without Math.round.
sendMoveCommand_NoRound(log, arg) ==
  IF readyState # "OPEN" THEN log
  ELSE IF "direction" \in DOMAIN arg
       THEN wsSend(log, [action |-> "move", direction |-> arg.direction],
                   readyState)
       ELSE wsSend(log, [action |-> "move", x |-> arg.x, y |-> arg.y],
                   readyState)

\* sendMoveCommand (game.js 465-485): the log after the call.  arg is
\* [direction] for a keyboard move (typeof x === 'string') and [x, y] for a
\* click, world coordinates in half pixels; the message carries the rounded
\* coordinates, again in half pixels (an even number is a whole pixel).
sendMoveCommand(log, arg) ==
  IF readyState # "OPEN" THEN log
  ELSE IF "direction" \in DOMAIN arg
       THEN wsSend(log, [action |-> "move", direction |-> arg.direction],
                   readyState)
       ELSE wsSend(log, [action |-> "move", x |-> 2 * MathRound(arg.x),
                         y |-> 2 * MathRound(arg.y)], readyState)

\* sendEmoteCommand (game.js 487-498).
sendEmoteCommand(log, emoteType) ==
  IF readyState # "OPEN" THEN log
  ELSE wsSend(log, [action |-> "emote", emote |-> emoteType,
                    playerId |-> myPlayerId], readyState)

\* The click listener's bounds test (game.js 420-421), half pixels.
InWorld(worldPos) ==
  /\ worldPos[1] >= 0 /\ worldPos[1] <= 2 * worldWidth
  /\ worldPos[2] >= 0 /\ worldPos[2] <= 2 * worldHeight

\* The canvas click listener (game.js 411-425); pt is the click position on
\* the canvas in whole pixels.
click(pt) ==
  LET worldPos == screenToWorld(2 * pt[1], 2 * pt[2])
      log == IF InWorld(worldPos)
             THEN sendMoveCommand(sent, [x |-> worldPos[1], y |-> worldPos[2]])
             ELSE sent
      ops0 == IF InWorld(worldPos) THEN <<"sendMoveCommand">> ELSE <<>>
  IN /\ pt[1] <= viewportWidth /\ pt[2] <= viewportHeight
     /\ Len(log) <= MaxSent
     /\ sent' = log
     /\ lastEvent' = Event("click",
                           IF log = sent THEN ops0 ELSE Append(ops0, "send"),
                           FALSE)
     /\ UNCHANGED <<players, avatars, myPlayerId, myPlayer, playerEmotes,
                    cameraX, cameraY, viewportWidth, viewportHeight, timers,
                    now, readyState, reconnectPending>>

\* The keydown listener (game.js 428-462).
KeyDirection(key) ==
  CASE key \in {"ArrowUp", "w", "W"} -> "up"
    [] key \in {"ArrowDown", "s", "S"} -> "down"
    [] key \in {"ArrowLeft", "a", "A"} -> "left"
    [] key \in {"ArrowRight", "d", "D"} -> "right"
    [] OTHER -> NullId

keydown(key) ==
  LET log == IF readyState # "OPEN" THEN sent
             ELSE IF key = "1" THEN sendEmoteCommand(sent, "jump")
             ELSE IF KeyDirection(key) # NullId
                  THEN sendMoveCommand(sent, [direction |-> KeyDirection(key)])
                  ELSE sent
  IN /\ Len(log) <= MaxSent
     /\ sent' = log
     /\ lastEvent' = Event("keydown", IF log = sent THEN <<>> ELSE <<"send">>,
                           FALSE)
     /\ UNCHANGED <<players, avatars, myPlayerId, myPlayer, playerEmotes,
                    cameraX, cameraY, viewportWidth, viewportHeight, timers,
                    now, readyState, reconnectPending>>

\* ---------------------------------------------------------- specifications
\* Spec: the reconciler, the avatar map and the camera under every message
\* shape, window resizes and image loads; the clock stands still, so the
\* only emotes it takes are the ones that start no timer.
Next ==
  \/ \E m \in WelcomeMsgs \cup WelcomeNoPlayers \cup WelcomeNoAvatars :
       handleJoinGameSuccess(m)
  \/ \E m \in JoinFailedMsgs : handleJoinGameFailed(m)
  \/ \E m \in JoinedMsgs \cup JoinedNoAvatar : handlePlayerJoined(m)
  \/ \E m \in MovedMsgs : handlePlayersMoved(m)
  \/ \E m \in LeftMsgs : handlePlayerLeft(m)
  \/ \E m \in {e \in EmoteMsgs : e.emote # "jump"} : handlePlayerEmote(m)
  \/ \E size \in ViewportSizes : resize(size)
  \/ \E n \in AvatarNames, d \in Directions : imageOnload(n, d, 1)

Spec == Init /\ [][Next]_vars

\* SpecWellFormed: as Spec, with the malformed payloads left out.
WellFormedWelcome == {m \in WelcomeMsgs : m.playerId \in DOMAIN m.players}

NextWellFormed ==
  \/ \E m \in WellFormedWelcome : handleJoinGameSuccess(m)
  \/ \E m \in JoinFailedMsgs : handleJoinGameFailed(m)
  \/ \E m \in JoinedMsgs : handlePlayerJoined(m)
  \/ \E m \in MovedMsgs : handlePlayersMoved(m)
  \/ \E m \in LeftMsgs : handlePlayerLeft(m)
  \/ \E m \in {e \in EmoteMsgs : e.emote # "jump"} : handlePlayerEmote(m)
  \/ \E size \in ViewportSizes : resize(size)
  \/ \E n \in AvatarNames, d \in Directions : imageOnload(n, d, 1)

SpecWellFormed == Init /\ [][NextWellFormed]_vars

\* SpecEmote: every message kind with the clock running and the expiry
\* timers firing, over one window size and the well-formed messages of a
\* two-player session.
InitEmote == Init /\ viewportWidth = 800

SessionWelcome ==
  {m \in WelcomeMsgs : DOMAIN m.players = Ids /\ m.players["p1"].x = 100}
SessionJoined == {m \in JoinedMsgs : m.player.id = "p2"}
SessionMoved ==
  {m \in MovedMsgs : \/ DOMAIN m.players = {"p2"}
                     \/ DOMAIN m.players = {"p1"} /\ m.players["p1"].x = 2040}

NextEmote ==
  \/ \E m \in SessionWelcome : handleJoinGameSuccess(m)
  \/ \E m \in SessionJoined : handlePlayerJoined(m)
  \/ \E m \in SessionMoved : handlePlayersMoved(m)
  \/ \E m \in LeftMsgs : handlePlayerLeft(m)
  \/ \E m \in EmoteMsgs : handlePlayerEmote(m)
  \/ emoteTimeout
  \/ Tick

SpecEmote == InitEmote /\ [][NextEmote]_vars

\* SpecSession: SpecWellFormed with message kinds the client does not know,
\* players that turn to a side their avatar has no frames for, and render
\* passes of the loaded world image.
UnknownMsgs == {[action |-> "ping"], [type |-> "players_moved"]}
TurnedMsgs ==
  {[action |-> "players_moved",
    players |-> [id \in {"p2"} |->
                   [Player("p2", <<2040, 2040>>) EXCEPT !.facing = "north"]]]}

NextSession ==
  \/ \E m \in WellFormedWelcome : handleJoinGameSuccess(m)
  \/ \E m \in JoinFailedMsgs : handleJoinGameFailed(m)
  \/ \E m \in JoinedMsgs : handlePlayerJoined(m)
  \/ \E m \in MovedMsgs \cup TurnedMsgs : handlePlayersMoved(m)
  \/ \E m \in LeftMsgs : handlePlayerLeft(m)
  \/ \E m \in {e \in EmoteMsgs : e.emote # "jump"} : handlePlayerEmote(m)
  \/ \E m \in UnknownMsgs : handleUnknown(m)
  \/ \E size \in ViewportSizes : resize(size)
  \/ \E n \in AvatarNames, d \in Directions : imageOnload(n, d, 1)
  \/ renderPass

SpecSession == Init /\ [][NextSession]_vars

\* SpecDue: the emote tracker with timers that fire when they are due.  An
\* emote is taken only while its expiry still falls inside MaxTime.
NextDue ==
  \/ \E m \in SessionWelcome : handleJoinGameSuccess(m)
  \/ \E m \in LeftMsgs : handlePlayerLeft(m)
  \/ \E m \in EmoteMsgs :
       /\ m.emote = "jump" => now + TimerDelay <= MaxTime
       /\ handlePlayerEmote(m)
  \/ emoteTimeout
  \/ TickDue

SpecDue ==
  /\ InitEmote
  /\ [][NextDue]_vars
  /\ WF_vars(emoteTimeout)
  /\ WF_vars(TickDue)

\* SpecNet: the connection's life cycle with clicks and key presses, over a
\* window narrower and a window wider than the world; server messages
\* arrive while the socket is open or closing.
NetViewportSizes == {<<800, 600>>, <<800, 601>>, <<3000, 601>>}
InitNet == Init /\ viewportWidth = 800

NextNet ==
  \/ wsOpen
  \/ wsClosing
  \/ wsClose
  \/ reconnect
  \/ \E pt \in ClickPoints : click(pt)
  \/ \E key \in Keys : keydown(key)
  \/ \E size \in NetViewportSizes : resize(size)
  \/ /\ readyState \in {"OPEN", "CLOSING"}
     /\ \E m \in SessionWelcome : handleJoinGameSuccess(m)
  \/ /\ readyState \in {"OPEN", "CLOSING"}
     /\ \E m \in SessionMoved : handlePlayersMoved(m)
  \/ renderPass

SpecNet == InitNet /\ [][NextNet]_vars

\* ------------------------------------------------------------------ claims
\* The local player's registry entry, undefined when there is none.
LocalEntry == MapGet(players, myPlayerId)
\* The camera centred on player p for the given window, half pixels.
Centered(p, vw, vh) ==
  <<Max(0, Min(2 * p.x - vw, 2 * Max(0, worldWidth - vw))),
    Max(0, Min(2 * p.y - vh, 2 * Max(0, worldHeight - vh)))>>
SessionState ==
  <<players, avatars, myPlayerId, myPlayer, playerEmotes, cameraX, cameraY>>

\* C1: in every reachable state the camera offset is clamped,
\* 0 <= cameraX <= max(0, worldWidth - viewportWidth) and the same for Y,
\* also when the viewport is larger than the world or empty.
C1_CameraClamped ==
  /\ 0 <= cameraX
  /\ cameraX <= 2 * Max(0, worldWidth - viewportWidth)
  /\ 0 <= cameraY
  /\ cameraY <= 2 * Max(0, worldHeight - viewportHeight)

\* C1 witness: the local player is centred in a window that is empty in
\* one axis and larger than the world in the other.
C1_Witness ==
  /\ lastEvent.action \in {"join_game", "players_moved"}
  /\ Truthy(myPlayer)
  /\ viewportWidth = 0
  /\ viewportHeight > worldHeight
  /\ cameraX = 2 * myPlayer.x
  /\ cameraY = 0

\* C2: after a welcome the local-player data used for camera centering is
\* the registry entry of the local id, whatever entityJoined, entitiesMoved
\* and entityLeft events follow.
C2_LocalPlayerIsRegistryEntry ==
  Truthy(myPlayer) => myPlayer = LocalEntry

\* C3: immediately after a welcome the registry holds exactly the ids of
\* that welcome's players and the avatar map exactly its avatars.
C3_WelcomeReplacesRegistry ==
  [][\A m \in WellFormedWelcome :
       handleJoinGameSuccess(m)
         => /\ DOMAIN players' = DOMAIN m.players
            /\ AvNames(avatars') = DOMAIN m.avatars]_vars

\* C6: after every event that changes the local player's registry position
\* and after every resize, the camera is the clamped centre of the local
\* player in the current window.
LocalPositionChanged ==
  /\ myPlayerId' \in DOMAIN players'
  /\ LET old == MapGet(players, myPlayerId')
         new == players'[myPlayerId']
     IN IF Truthy(old) THEN old.x # new.x \/ old.y # new.y ELSE TRUE
C6_CameraRecentered ==
  [][(/\ myPlayerId' \in DOMAIN players'
      /\ \/ \E size \in ViewportSizes : resize(size)
         \/ /\ LocalPositionChanged
            /\ \/ \E m \in MovedMsgs : handlePlayersMoved(m)
               \/ \E m \in JoinedMsgs : handlePlayerJoined(m)
               \/ \E m \in WellFormedWelcome : handleJoinGameSuccess(m))
       => <<cameraX', cameraY'>> =
            Centered(players'[myPlayerId'], viewportWidth', viewportHeight')
    ]_vars

\* C7: a malformed payload (entityJoined without avatar, welcome without
\* players or avatars, welcome whose selfId is not among its players) leaves
\* registry, avatar map, local identity, effect tracker and camera as they
\* were.
MalformedWelcome ==
  WelcomeNoPlayers \cup WelcomeNoAvatars \cup (WelcomeMsgs \ WellFormedWelcome)
C7_MalformedDiscarded ==
  [][(\/ \E m \in MalformedWelcome : handleJoinGameSuccess(m)
      \/ \E m \in JoinedNoAvatar : handlePlayerJoined(m))
       => UNCHANGED SessionState]_vars

\* C10: an entityJoined whose avatar name is already in the avatar map
\* leaves that entry as it was, so frames that were ready stay ready.
C10_AvatarEntryKept ==
  [][\A m \in JoinedMsgs :
       (m.avatar.name \in AvNames(avatars) /\ handlePlayerJoined(m))
         => AvGet(avatars', m.avatar.name) = AvGet(avatars, m.avatar.name)
    ]_vars

\* The effect now tracked for the entity of timer t started after t was set.
NewerEffect(t) ==
  /\ t.playerId \in DOMAIN playerEmotes
  /\ playerEmotes[t.playerId].startTime > t.due - TimerDelay

\* C4: an expiry timer that fires after its effect was overwritten by a
\* newer start for the same entity leaves the tracker as it was.
C4_StaleTimerIsNoOp ==
  [][(emoteTimeout /\ NewerEffect(Head(timers)))
       => playerEmotes' = playerEmotes]_vars

\* C5: a jump started for an entity at t0, the entity not having left
\* since, is active at every time before t0 + 1500 whatever was started
\* earlier, and is gone once every expiry due for the entity has run.
C5_JumpActiveForDuration ==
  \A id \in Ids :
    /\ (\E i \in 1..Len(timers) :
          /\ timers[i].playerId = id
          /\ ~timers[i].leftSince
          /\ now < timers[i].due)
         => id \in DOMAIN playerEmotes
    /\ (\A i \in 1..Len(timers) : timers[i].playerId # id)
         => id \notin DOMAIN playerEmotes

\* C9: entityLeft(id) removes id from registry and effect tracker and
\* leaves every other entry alone, and an expiry timer for id that was
\* pending then changes nothing when it fires.
C9_LeftRemovesAndTimerHarmless ==
  [][/\ \A m \in LeftMsgs :
          handlePlayerLeft(m)
            => /\ m.playerId \notin DOMAIN players'
               /\ m.playerId \notin DOMAIN playerEmotes'
               /\ \A o \in Ids \ {m.playerId} :
                    /\ MapGet(players', o) = MapGet(players, o)
                    /\ MapGet(playerEmotes', o) = MapGet(playerEmotes, o)
     /\ (/\ emoteTimeout
         /\ Head(timers).leftSince
         /\ Head(timers).playerId \in DOMAIN playerEmotes
               => NewerEffect(Head(timers)))
          => UNCHANGED <<players, playerEmotes>>]_vars

\* C8: a handler that applied a welcome, entityJoined, entitiesMoved,
\* entityLeft or emote rendered exactly once, after all its mutations.
AppliedKinds ==
  {"join_game", "player_joined", "players_moved", "player_left", "emote"}
C8_OneRenderLast ==
  (lastEvent.action \in AppliedKinds /\ ~lastEvent.threw)
    => LET ops == lastEvent.ops
       IN /\ Len(ops) >= 1
          /\ ops[Len(ops)] = "render"
          /\ \A i \in 1..(Len(ops) - 1) : ops[i] # "render"

\* C8 witness: a jump emote was applied: effect stored, timer set, then one
\* render.
C8_Witness ==
  /\ lastEvent.action = "emote"
  /\ lastEvent.ops = <<"playerEmotes", "setTimeout", "render">>
  /\ timers # <<>>

\* Messages on the log that carry click coordinates.
CoordMoves(log) ==
  {i \in 1..Len(log) : log[i].msg.action = "move" /\ "x" \in DOMAIN log[i].msg}
WholeInWorld(msg) ==
  /\ msg.x % 2 = 0 /\ msg.x >= 0 /\ msg.x <= 2 * worldWidth
  /\ msg.y % 2 = 0 /\ msg.y >= 0 /\ msg.y <= 2 * worldHeight

\* C11: every move message a click sends carries whole-pixel coordinates
\* with 0 <= x <= worldWidth and 0 <= y <= worldHeight, and a click whose
\* world position lies outside that rectangle sends nothing.
C11_ClickMovesInWorld ==
  [][/\ \A i \in CoordMoves(sent') : WholeInWorld(sent'[i].msg)
     /\ \A pt \in ClickPoints :
          LET w == screenToWorld(2 * pt[1], 2 * pt[2])
          IN (/\ click(pt)
              /\ \/ w[1] < 0 \/ w[1] > 2 * worldWidth
                 \/ w[2] < 0 \/ w[2] > 2 * worldHeight)
             => sent' = sent]_vars
\* A click that landed half a pixel off was sent rounded, and a later click
\* beyond the world's edge on an open socket sent nothing.
C11_Witness ==
  /\ \E i \in CoordMoves(sent) : sent[i].msg.y = 2048
  /\ cameraY % 2 = 1
  /\ readyState = "OPEN"
  /\ lastEvent = Event("click", <<>>, FALSE)

\* C12: every emote message sent carries the id the server assigned in the
\* most recent welcome; no emote is sent with the null id of a client that
\* has not been welcomed yet.
C12_EmoteCarriesAssignedId ==
  \A i \in 1..Len(sent) :
    sent[i].msg.action = "emote"
      => /\ sent[i].msg.playerId # NullId
         /\ sent[i].msg.playerId = myPlayerId

\* Everything but the event log.
ProgramState ==
  <<players, avatars, myPlayerId, myPlayer, playerEmotes, cameraX, cameraY,
    viewportWidth, viewportHeight, timers, now, netVars>>

\* C13: a message of an unknown kind is ignored: registry, avatars,
\* identity, emote tracker and camera stay as they are and nothing is
\* rendered, so the messages after it meet the state they would have met
\* without it.
C13_UnknownIgnored ==
  [][\A m \in UnknownMsgs :
       handleUnknown(m) =>
         /\ UNCHANGED ProgramState
         /\ \A i \in 1..Len(lastEvent'.ops) : lastEvent'.ops[i] # "render"
         /\ ~lastEvent'.threw]_vars
\* An unknown message arrived in a session with two players and a local
\* player.
C13_Witness ==
  /\ lastEvent.action = "unknown"
  /\ DOMAIN players = Ids
  /\ Truthy(myPlayer)
  /\ cameraY > 0

\* C14: a players_moved message naming an id the registry does not have
\* acts as a join: afterwards the registry holds, for every id of the
\* payload, the payload's player, and the entries of all other ids are the
\* ones it held before.
C14_MovedIsImplicitJoin ==
  [][\A m \in MovedMsgs \cup TurnedMsgs :
       handlePlayersMoved(m) =>
         /\ DOMAIN players' = DOMAIN players \cup DOMAIN m.players
         /\ \A id \in DOMAIN m.players : players'[id] = m.players[id]
         /\ \A id \in DOMAIN players \ DOMAIN m.players :
              players'[id] = players[id]]_vars
\* p2 is in the registry although its avatar was never delivered, so it
\* came in through players_moved, next to p1 which that message left alone.
C14_Witness ==
  /\ lastEvent.action = "players_moved"
  /\ DOMAIN players = Ids
  /\ "a2" \notin AvNames(avatars)
  /\ "a1" \in AvNames(avatars)

\* The camera the code should have for a local player at p.
CameraOn(p) == <<cameraX, cameraY>> = Centered(p, viewportWidth, viewportHeight)

\* C15: the session from a fresh client: a welcome with two players gives a
\* registry of size 2 and the camera clamp(self - viewport / 2); a
\* player_left for the other id that follows gives a registry of size 1 and
\* a render without error; a players_moved for the local id that follows
\* puts the camera at clamp(new position - viewport / 2), and a
\* players_moved without the local id leaves the camera where it is.
C15_EndToEnd ==
  [][/\ \A m \in WellFormedWelcome :
          (/\ handleJoinGameSuccess(m)
           /\ players = EmptyMap
           /\ Cardinality(DOMAIN m.players) = 2)
          => /\ Cardinality(DOMAIN players') = 2
             /\ CameraOn(m.players[m.playerId])'
     /\ \A m \in LeftMsgs :
          (/\ handlePlayerLeft(m)
           /\ lastEvent.action = "join_game"
           /\ Cardinality(DOMAIN players) = 2
           /\ m.playerId # myPlayerId)
          => /\ DOMAIN players' = {myPlayerId}
             /\ ~lastEvent'.threw
             /\ \A id \in DOMAIN players' : drawPlayers'[id] # "throws"
     /\ \A m \in MovedMsgs :
          (/\ handlePlayersMoved(m)
           /\ lastEvent.action = "player_left"
           /\ DOMAIN players = {myPlayerId})
          => IF myPlayerId \in DOMAIN m.players
             THEN CameraOn(m.players[myPlayerId])'
             ELSE UNCHANGED <<cameraX, cameraY>>]_vars
\* The scenario's end: p2 was there (its avatar is known) and has left, and
\* the local player's move to (2040, 2040) was the last message.
C15_Witness ==
  /\ lastEvent.action = "players_moved"
  /\ DOMAIN players = {"p1"}
  /\ AvNames(avatars) = {"a1", "a2"}
  /\ myPlayer.x = 2040
  /\ viewportWidth = 800
  /\ <<cameraX, cameraY>> = <<2 * (2048 - 800), 2 * (2048 - 601)>>

\* screenToWorld undoes worldToScreen on every point of WorldCoords.
RoundTrip ==
  \A wx \in WorldCoords, wy \in WorldCoords :
    LET screenPos == worldToScreen(2 * wx, 2 * wy)
    IN screenToWorld(screenPos[1], screenPos[2]) = <<2 * wx, 2 * wy>>

\* C16: screenToWorld(worldToScreen(wx, wy)) = (wx, wy) for every camera
\* offset and every bounded integer point, and the handlers that convert
\* (the click listener with screenToWorld, the render pass with
\* worldToScreen) leave the session state and the window size unchanged.
C16_ConversionRoundTrip ==
  [][/\ RoundTrip /\ RoundTrip'
     /\ ((\E pt \in ClickPoints : click(pt)) \/ renderPass)
        => UNCHANGED <<SessionState, viewportWidth, viewportHeight>>]_vars
\* A click was converted and sent under a camera that is off the origin
\* and on a half pixel.
C16_Witness ==
  /\ lastEvent = Event("click", <<"sendMoveCommand", "send">>, FALSE)
  /\ cameraY > 0
  /\ cameraY % 2 = 1

\* C17: clamping is idempotent: clamping a clamped offset changes nothing,
\* for raw offsets below, inside and beyond the range and for the camera the
\* client holds; and with the 2048 x 2048 world and an 800 x 600 window a
\* local player at (2040, 2040) gives the offset (1248, 1448).
C17_ClampIdempotent ==
  /\ \A cx \in RawOffsets, cy \in RawOffsets :
       LET once == updateViewport(cx, cy, viewportWidth, viewportHeight)
       IN updateViewport(once[1], once[2], viewportWidth, viewportHeight)
            = once
  /\ updateViewport(cameraX, cameraY, viewportWidth, viewportHeight)
       = <<cameraX, cameraY>>
  /\ centerViewportOnPlayer(Player("p1", <<2040, 2040>>), cameraX, cameraY,
                            800, 600) = <<2 * 1248, 2 * 1448>>
  /\ (/\ viewportWidth = 800 /\ viewportHeight = 600
      /\ lastEvent.action = "players_moved"
      /\ lastEvent.ops = <<"players", "myPlayer", "camera", "render">>
      /\ myPlayer.x = 2040 /\ myPlayer.y = 2040)
     => <<cameraX, cameraY>> = <<2 * 1248, 2 * 1448>>
\* The local player has just moved to (2040, 2040) in an 800 x 600 window.
C17_Witness ==
  /\ viewportWidth = 800 /\ viewportHeight = 600
  /\ lastEvent.action = "players_moved"
  /\ lastEvent.ops = <<"players", "myPlayer", "camera", "render">>
  /\ myPlayer.x = 2040 /\ myPlayer.y = 2040
  /\ <<cameraX, cameraY>> = <<2496, 2896>>

\* C18: with timers firing when due, every emote that was started is
\* removed, and no later than startTime + 1500; an id has at most one active
\* effect, a new start replacing the old one.
C18_EmoteRemovedInTime ==
  /\ [](\A id \in DOMAIN playerEmotes :
          now <= playerEmotes[id].startTime + EmoteDuration)
  /\ [][\A m \in EmoteMsgs :
          (handlePlayerEmote(m) /\ m.emote = "jump")
          => /\ playerEmotes'[m.playerId] = EmoteEffect(now)
             /\ \A id \in DOMAIN playerEmotes' \ {m.playerId} :
                  /\ id \in DOMAIN playerEmotes
                  /\ playerEmotes'[id] = playerEmotes[id]]_vars
  /\ \A id \in Ids :
       (id \in DOMAIN playerEmotes) ~> (id \notin DOMAIN playerEmotes)
\* The timer of an emote started at 500 has fired when it was due, at 2000,
\* and no effect is left.
C18_Witness ==
  /\ now = 2000
  /\ lastEvent.action = "timeout"
  /\ playerEmotes = EmptyMap
  /\ timers = <<>>

\* C19: a render pass reads the session state and does not write it:
\* registry, avatar map, emote tracker, local identity and camera are the
\* same after it, whether a player's avatar is missing, its frame set is
\* empty, its frame is not loaded yet or it faces west.
C19_RenderReadOnly ==
  [][renderPass => UNCHANGED <<SessionState, viewportWidth, viewportHeight,
                               timers>>]_vars
\* A pass that drew the local player flipped (facing west) and returned
\* early on the other player, whose avatar is missing.
C19_Witness ==
  /\ lastEvent.action = "world_onload"
  /\ DOMAIN lastEvent.drawn = Ids
  /\ lastEvent.drawn["p1"] = "drawn_flipped"
  /\ lastEvent.drawn["p2"] = "no_avatar"
\* Passes that returned on an empty frame set and on an unloaded frame.
C19_WitnessFrames ==
  /\ lastEvent.action = "world_onload"
  /\ DOMAIN lastEvent.drawn = Ids
  /\ lastEvent.drawn["p1"] = "not_loaded"
  /\ lastEvent.drawn["p2"] = "no_frames"

\* The join messages on a socket's log.
Joins(log) == {i \in 1..Len(log) : log[i].msg.action = "join_game"}

\* C20: nothing is ever sent on a socket that is not open: a click or a key
\* press while the socket is connecting, closing or closed (the reconnect
\* wait included) sends nothing and queues nothing, and each socket gets
\* the join message exactly once, when it opens.
C20_SendOnlyWhenOpen ==
  [][/\ \A i \in 1..Len(sent') : sent'[i].state = "OPEN"
     /\ readyState' = "CONNECTING" => sent' = <<>>
     /\ readyState' \in {"OPEN", "CLOSING"} => Joins(sent') = {1}
     /\ readyState' = "CLOSED" => Joins(sent') \subseteq {1}
     /\ wsOpen => sent' = <<[msg |-> [action |-> "join_game",
                                      username |-> "Praise"],
                             state |-> "OPEN"]>>
     /\ (/\ readyState # "OPEN"
         /\ \/ \E pt \in ClickPoints : click(pt)
            \/ \E key \in Keys : keydown(key))
        => sent' = sent]_vars
\* During the reconnect wait a click inside the world reached
\* sendMoveCommand and was dropped; the closed socket's log holds its join
\* and nothing else.
C20_Witness ==
  /\ readyState = "CLOSED"
  /\ reconnectPending
  /\ lastEvent = Event("click", <<"sendMoveCommand">>, FALSE)
  /\ Len(sent) = 1
  /\ Joins(sent) = {1}

====
